---- MODULE Spec2Model ----
(***************************************************************************)
(* Model of the chat ingestion and profanity-classification engine of      *)
(* src/main_gui.py: TwitchChatWorker (connect, listen loop, line framing,  *)
(* keep-alive, reconnection with backoff, message processing, bounded      *)
(* history) and the controller operations of BadWordDetectorApp that act   *)
(* on a running worker (stop, reset, history read, lexicon reload).        *)
(*                                                                         *)
(* Text is modelled as a sequence of characters; a character is a string.  *)
(* The protocol keywords PING and PRIVMSG are single characters of the     *)
(* model (they stand for their letters, see Width).  Bytes on the wire are *)
(* strings as well: an ASCII byte is written as its character, the bytes   *)
(* of a three-byte UTF-8 sequence are "xE0", "xB8" and "x81".              *)
(***************************************************************************)
EXTENDS Integers, Sequences, FiniteSets, TLC

VARIABLES
    \* ---- fields of TwitchChatWorker
    running,            \* self.running
    socket,             \* self.socket: "None", "unconnected", "connected", "closed"
    reconnect_attempts, \* self.reconnect_attempts
    total_messages,     \* self.total_messages
    bad_word_count,     \* self.bad_word_count
    chat_messages,      \* self.chat_messages, a deque(maxlen=200)
    chat_mutex,         \* self.chat_mutex: "free", "worker", "ctl"
    badwords_th,        \* self.badwords_th
    badwords_en,        \* self.badwords_en
    \* ---- the worker thread: position and locals
    pc,                 \* position of the worker thread
    caller,             \* who called connect_to_twitch / handle_connection_error
    buffer,             \* local buffer of listen_to_chat
    line,               \* the line being dispatched / processed
    wait_time,          \* local wait_time of handle_connection_error
    reg,                \* value loaded by an in-flight "+= 1"
    user_part,          \* locals of process_chat_message
    message,
    thai_words,         \* result of detect_thai_profanity of the in-flight call
    found_words,        \* result of optimized_detect_bad_words
    \* ---- the controller thread (GUI)
    cpc,                \* position of the controller inside a worker operation
    loaded,             \* value of load_bad_words() of an in-flight reload
    snapshot,           \* last value returned by get_chat_messages
    \* ---- environment
    wire,               \* bytes the server has still to deliver
    files,              \* contents of badwords.txt / badwords_en.txt
    nsent,              \* number of bursts the server has sent
    oracle,             \* what segment() and the two paths do in the classification
                        \* under test (SpecCls), NoOracle otherwise
    prev,               \* the previous classification under test and its result
    \* ---- observation (history variables)
    emitted,            \* signals emitted by the last step of the worker, in order
    sent,               \* lines written to the socket by the last step of the worker
    framed,             \* lines handed to the dispatcher since the last burst began
    wire0,              \* the bytes of the last burst
    used_th,            \* lexicon read by the Thai path of the in-flight classification
    retry_status,       \* retry notices emitted since handle_connection_error was entered
    clock,              \* number of flagged events recorded (stands for datetime.now())
    received,           \* how the call of recv of this pass of the loop ended, else "none"
    \* ---- the window
    connect_btn         \* twitch_connect_btn.isEnabled()

vars == <<running, socket, reconnect_attempts, total_messages, bad_word_count,
          chat_messages, chat_mutex, badwords_th, badwords_en,
          pc, caller, buffer, line, wait_time, reg, user_part, message,
          thai_words, found_words, cpc, loaded, snapshot, connect_btn, wire, files, nsent,
          oracle, prev,
          emitted, sent, framed, wire0, used_th, retry_status, clock, received>>

wfields == <<running, socket, reconnect_attempts, total_messages, bad_word_count,
             chat_messages, chat_mutex, badwords_th, badwords_en>>
wlocals == <<caller, buffer, line, wait_time, reg, user_part, message,
             thai_words, found_words>>
cvars   == <<cpc, loaded, snapshot, connect_btn>>
envvars == <<wire, files, nsent, oracle, prev>>
marks   == <<framed, wire0, used_th, retry_status, clock>>
ghosts  == <<marks, received>>

-----------------------------------------------------------------------------
(* Bounds of the model *)

\* bursts (lines) the server sends in Spec
MaxLines == 2
\* bytes of a stream in SpecFrame
MaxBytes == 4

\* lines of a word-list file in SpecLoad
MaxFileLines == 2

(* Program constants *)

max_reconnect_attempts == 5
maxlen == 200

-----------------------------------------------------------------------------
(* Characters *)

LF == "LF"
CR == "CR"
SP == " "
TAB == "TAB"
PING == "PING"
PRIVMSG == "PRIVMSG"
TmiHost == "tmi.twitch.tv"
OtherHost == "irc.example.net"

LowerLetters == {"a", "b", "d", "n", "u"}
UpperLetters == {"B", PING, PRIVMSG}
ThaiLetters == {"th1", "th38"}
Whitespace == {SP, CR, LF, TAB}

\* str.lower() on one character
LowerChar(c) ==
    CASE c = "B" -> "b"
      [] c = PING -> "ping"
      [] c = PRIVMSG -> "privmsg"
      [] OTHER -> c

IsAsciiLetter(c) == c \in LowerLetters \cup UpperLetters \cup {"ping", "privmsg"}

\* number of Python characters a character of the model stands for
Width(c) ==
    CASE c \in {PING, "ping"} -> 4
      [] c \in {PRIVMSG, "privmsg"} -> 7
      [] c \in {TmiHost, OtherHost} -> 13
      [] OTHER -> 1

RECURSIVE StrLen(_)
StrLen(s) == IF s = <<>> THEN 0 ELSE Width(Head(s)) + StrLen(Tail(s))

Lower(s) == [i \in 1..Len(s) |-> LowerChar(s[i])]

RECURSIVE Filter(_, _)
\* the characters of s that are in the set keep, in order (re.sub of the complement)
Filter(s, keep) ==
    IF s = <<>> THEN <<>>
    ELSE IF Head(s) \in keep THEN <<Head(s)>> \o Filter(Tail(s), keep)
    ELSE Filter(Tail(s), keep)

RECURSIVE Remove(_, _)
\* str.replace(c, '')
Remove(s, c) ==
    IF s = <<>> THEN <<>>
    ELSE IF Head(s) = c THEN Remove(Tail(s), c)
    ELSE <<Head(s)>> \o Remove(Tail(s), c)

\* index of the first occurrence of c in s, 0 if there is none
IndexOf(s, c) ==
    IF \E i \in 1..Len(s) : s[i] = c
    THEN CHOOSE i \in 1..Len(s) : s[i] = c /\ \A j \in 1..(i-1) : s[j] # c
    ELSE 0

RECURSIVE RStrip(_, _)
\* str.rstrip(chars)
RStrip(s, chars) ==
    IF s # <<>> /\ s[Len(s)] \in chars THEN RStrip(SubSeq(s, 1, Len(s) - 1), chars)
    ELSE s

RECURSIVE LStrip(_, _)
LStrip(s, chars) ==
    IF s # <<>> /\ Head(s) \in chars THEN LStrip(Tail(s), chars) ELSE s

\* str.strip()
Strip(s) == LStrip(RStrip(s, Whitespace), Whitespace)

RECURSIVE SplitWs(_)
\* str.split(): the maximal runs of non-whitespace characters
SplitWs(s) ==
    LET t == LStrip(s, Whitespace) IN
    IF t = <<>> THEN <<>>
    ELSE LET ends == {i \in 1..Len(t) : t[i] \in Whitespace}
             n == IF ends = {} THEN Len(t) + 1
                  ELSE CHOOSE i \in ends : \A j \in ends : i <= j
         IN <<SubSeq(t, 1, n - 1)>> \o SplitWs(SubSeq(t, n, Len(t)))

\* x in s for strings: x is a contiguous substring of s
IsSubstring(x, s) ==
    \E i \in 0..(Len(s) - Len(x)) : SubSeq(s, i + 1, i + Len(x)) = x

Range(s) == {s[i] : i \in 1..Len(s)}

-----------------------------------------------------------------------------
(* bytes.decode('utf-8', errors='ignore') *)

Continuation == {"xB8", "x81"}

\* the character encoded by xE0 xB8 <third>
ThaiChar(third) == IF third = "x81" THEN "th1" ELSE "th38"

RECURSIVE Decode(_)
\* an undecodable byte (a continuation byte with no lead, a lead whose sequence is
\* cut short or broken) is dropped, and decoding goes on after it
Decode(bs) ==
    IF bs = <<>> THEN <<>>
    ELSE IF Head(bs) = "xE0" THEN
        IF Len(bs) >= 3 /\ bs[2] = "xB8" /\ bs[3] \in Continuation
        THEN <<ThaiChar(bs[3])>> \o Decode(SubSeq(bs, 4, Len(bs)))
        ELSE IF Len(bs) >= 2 /\ bs[2] = "xB8"
        THEN Decode(SubSeq(bs, 3, Len(bs)))
        ELSE Decode(Tail(bs))
    ELSE IF Head(bs) \in Continuation THEN Decode(Tail(bs))
    ELSE <<Head(bs)>> \o Decode(Tail(bs))

-----------------------------------------------------------------------------
(* Line framing of listen_to_chat *)

FirstLine_Last(buf) ==
    LET ends == {i \in 1..Len(buf) : buf[i] = LF}
        last == CHOOSE i \in ends : \A j \in ends : j <= i
        before == {i \in ends : i < last}
        start == IF before = {} THEN 0 ELSE CHOOSE i \in before : \A j \in before : j <= i
    IN SubSeq(buf, start + 1, last - 1)

\* line, buffer = buffer.split('\n', 1)
FirstLine(buf) == SubSeq(buf, 1, IndexOf(buf, LF) - 1)
AfterFirstLine(buf) == SubSeq(buf, IndexOf(buf, LF) + 1, Len(buf))

\* line.rstrip('\r')
TrimLine(l) == RStrip(l, {CR})

RECURSIVE AllLines(_)
\* the lines the inner loop hands on when buf is the whole buffer: the complete,
\* non-empty lines of buf in order
AllLines(buf) ==
    IF IndexOf(buf, LF) = 0 THEN <<>>
    ELSE LET l == TrimLine(FirstLine(buf)) IN
         (IF l = <<>> THEN <<>> ELSE <<l>>) \o AllLines(AfterFirstLine(buf))

IsPing_Never(l) == FALSE

\* line.startswith('PING')
IsPing(l) == l # <<>> /\ Head(l) = PING

\* 'PRIVMSG' in line
HasPrivmsg(l) == PRIVMSG \in Range(l)

\* pong_response = 'PONG :tmi.twitch.tv\r\n'
pong_response(l) == <<"PONG", SP, ":", TmiHost, CR, LF>>

-----------------------------------------------------------------------------
(* Parsing of process_chat_message *)

\* parts = line.split('PRIVMSG'): parts[0] and parts[1]
Parts0(l) == SubSeq(l, 1, IndexOf(l, PRIVMSG) - 1)
Parts1(l) ==
    LET rest == SubSeq(l, IndexOf(l, PRIVMSG) + 1, Len(l)) IN
    IF IndexOf(rest, PRIVMSG) = 0 THEN rest
    ELSE SubSeq(rest, 1, IndexOf(rest, PRIVMSG) - 1)

\* user_part = parts[0].split('!')[0][1:]
UserPart(l) ==
    LET p == Parts0(l)
        u == IF IndexOf(p, "!") = 0 THEN p ELSE SubSeq(p, 1, IndexOf(p, "!") - 1)
    IN IF u = <<>> THEN <<>> ELSE Tail(u)

\* len(message_part) >= 2 for message_part = parts[1].split(':', 1)
HasMessage(l) == IndexOf(Parts1(l), ":") # 0

\* message = message_part[1].strip()
MessageOf(l) ==
    LET p == Parts1(l) IN Strip(SubSeq(p, IndexOf(p, ":") + 1, Len(p)))

-----------------------------------------------------------------------------
(* Lexicon files and load_bad_words *)

NoFile == [present |-> FALSE, lines |-> <<>>]
TextFile(ls) == [present |-> TRUE, lines |-> ls]

FilesV1 == [th |-> TextFile(<< <<"th1">> >>),
            en |-> TextFile(<< <<SP, "B", "a", "d">>, <<SP>> >>)]
FilesV2 == [th |-> TextFile(<< <<"a", "d">> >>),
            en |-> NoFile]
FileVersions == {FilesV1, FilesV2}

LoadFile_NoStrip(f) ==
    IF ~f.present THEN {}
    ELSE {Lower(f.lines[i]) : i \in {j \in 1..Len(f.lines) : Strip(f.lines[j]) # <<>>}}

\* the entries one file contributes: stripped, lowercased, blank lines skipped
LoadFile(f) ==
    IF ~f.present THEN {}
    ELSE {Lower(Strip(f.lines[i])) : i \in {j \in 1..Len(f.lines) : Strip(f.lines[j]) # <<>>}}

load_bad_words(fs) == [th |-> LoadFile(fs.th), en |-> LoadFile(fs.en)]

-----------------------------------------------------------------------------
(* Classification *)

WORDSEGMENT_AVAILABLE == TRUE

RECURSIVE Segmentations(_)
\* the values segment(s) can have: the ways of cutting s into words
Segmentations(s) ==
    IF s = <<>> THEN {<<>>}
    ELSE UNION {{<<SubSeq(s, 1, k)>> \o r : r \in Segmentations(SubSeq(s, k + 1, Len(s)))}
                : k \in 1..Len(s)}

ThaiClean_KeepsSpaces(m) ==
    Filter(Lower(m), {c \in Range(Lower(m)) :
              IsAsciiLetter(c) \/ c \in ThaiLetters \/ c \in Whitespace})

\* message_clean_no_space of detect_thai_profanity
ThaiClean(m) ==
    Remove(Filter(Lower(m), {c \in Range(Lower(m)) :
                     IsAsciiLetter(c) \/ c \in ThaiLetters \/ c \in Whitespace}), SP)

RECURSIVE ListOfSet(_)
\* list(S) for a set S: its elements, each once, in some order
ListOfSet(S) ==
    IF S = {} THEN <<>>
    ELSE LET x == CHOOSE y \in S : TRUE IN <<x>> \o ListOfSet(S \ {x})

\* the list detect_thai_profanity returns: the entries found in the cleaned message
detect_thai_profanity(m, th) == ListOfSet({w \in th : IsSubstring(w, ThaiClean(m))})

\* cleaned_message of detect_english_profanity
EnglishClean(m) ==
    Filter(Lower(m), {c \in Range(Lower(m)) : IsAsciiLetter(c) \/ c \in Whitespace})

\* the results segment() can give for this message, "error" when it raises
SegmentOutcomes(m) ==
    {[ok |-> TRUE, words |-> s] : s \in Segmentations(Remove(EnglishClean(m), SP))}
    \cup {[ok |-> FALSE, words |-> <<>>]}

WordsToCheck_NoFallback(m, seg) ==
    IF WORDSEGMENT_AVAILABLE /\ seg.ok
    THEN ListOfSet(Range(seg.words) \cup Range(SplitWs(EnglishClean(m))))
    ELSE <<>>

\* words_to_check: list(set(segmented_words + normal_words)), or the whitespace
\* tokens alone when segment() raised or is not available
WordsToCheck(m, seg) ==
    IF WORDSEGMENT_AVAILABLE /\ seg.ok
    THEN ListOfSet(Range(seg.words) \cup Range(SplitWs(EnglishClean(m))))
    ELSE SplitWs(EnglishClean(m))

detect_english_profanity_NoLength(m, en, seg) ==
    SelectSeq(WordsToCheck(m, seg), LAMBDA w : w \in en)

\* the list detect_english_profanity returns: the words to check of length >= 3
\* that are entries, in the order of words_to_check
detect_english_profanity(m, en, seg) ==
    SelectSeq(WordsToCheck(m, seg), LAMBDA w : StrLen(w) >= 3 /\ w \in en)

optimized_detect_bad_words_NoSet(thai, english) == thai \o english

\* return list(set(all_found_words))
optimized_detect_bad_words(thai, english) == ListOfSet(Range(thai \o english))

-----------------------------------------------------------------------------
(* History and backoff *)

channel_name == "chan"

DequeAppend_Unbounded(d, x) == Append(d, x)

DequeAppend_DropsNewest(d, x) ==
    IF Len(d) >= maxlen THEN SubSeq(d, 1, Len(d) - 1) \o <<x>> ELSE Append(d, x)

\* deque(maxlen=200).append(x)
DequeAppend(d, x) ==
    IF Len(d) >= maxlen THEN Tail(d) \o <<x>> ELSE Append(d, x)

Min(a, b) == IF a <= b THEN a ELSE b

WaitTime_NoCap(n) == 5 * (2 ^ (n - 1))

\* wait_time = min(5 * (2 ** (self.reconnect_attempts - 1)), 30)
WaitTime(n) == Min(5 * (2 ^ (n - 1)), 30)

chat_info(ts, u, m, w) ==
    [timestamp |-> ts, username |-> u, message |-> m, bad_words |-> w,
     channel |-> channel_name]

-----------------------------------------------------------------------------
(* Signals *)

Ev(sig, ok, text, u, m, w, t, b) ==
    [sig |-> sig, ok |-> ok, text |-> text, user |-> u, msg |-> m, words |-> w,
     total |-> t, bad |-> b]

connection_status(ok, text) == Ev("connection_status", ok, text, <<>>, <<>>, <<>>, 0, 0)
error_occurred(text) == Ev("error_occurred", FALSE, text, <<>>, <<>>, <<>>, 0, 0)
message_received(u, m) == Ev("message_received", FALSE, "", u, m, <<>>, 0, 0)
bad_word_detected(u, m, w) == Ev("bad_word_detected", FALSE, "", u, m, w, 0, 0)
chat_stats(t, b) == Ev("chat_stats", FALSE, "", <<>>, <<>>, <<>>, t, b)

Sigs(evs) == [i \in 1..Len(evs) |-> evs[i].sig]

-----------------------------------------------------------------------------
(* What the server sends *)

PingLine(host) == <<PING, SP, ":", host, CR, LF>>
ChatLine(text) == <<":", "n", "!", "u", SP, PRIVMSG, SP, "#", SP, ":">> \o text \o <<CR, LF>>
BadText == <<"b", "a", "d">>
CleanText == <<"a">>
LineSet == {PingLine(TmiHost), PingLine(OtherHost), ChatLine(BadText), ChatLine(CleanText)}

\* where recv may cut the stream w in Spec: at the end of a line, or inside the prefix
\* of a chat line
LineCuts(w) == {k \in 1..Len(w) : k = Len(w) \/ w[k] = LF \/ w[k] = "!"}

-----------------------------------------------------------------------------
(* The worker thread *)

Quiet == emitted' = <<>> /\ sent' = <<>>

\* where connect_to_twitch returns to
ConnectFailedPc == IF caller = "start" THEN "done" ELSE "hce_loop"
ConnectOkPc ==
    CASE caller = "start" -> "set_running"
      [] caller = "hce_sock" -> "loop"
      [] OTHER -> "done"
\* where handle_connection_error returns to when it gives up
HceFailedPc == IF caller = "hce_sock" THEN "loop" ELSE "done"

\* start_listening: the call of connect_to_twitch
StartListening ==
    /\ pc = "start"
    /\ pc' = "connect"
    /\ caller' = "start"
    /\ Quiet
    /\ UNCHANGED <<wfields, buffer, line, wait_time, reg, user_part, message,
                   thai_words, found_words, cvars, envvars, ghosts>>

ConnectOutcomes == {"ok", "timeout", "gaierror", "refused", "other"}

ConnectErrorText(o) ==
    CASE o = "timeout" -> "Connection timeout"
      [] o = "gaierror" -> "DNS resolution failed"
      [] o = "refused" -> "Connection refused by server"
      [] OTHER -> "Connection error"

ConnectFailedEvents_NoStatus(o) == <<error_occurred(ConnectErrorText(o))>>

\* the signals of a failing connect_to_twitch
ConnectFailedEvents(o) ==
    <<connection_status(FALSE, ConnectErrorText(o)), error_occurred(ConnectErrorText(o))>>

\* connect_to_twitch: a new socket and its connect
Connect(o) ==
    /\ pc = "connect"
    /\ sent' = <<>>
    /\ IF o = "ok"
       THEN /\ socket' = "connected"
            /\ pc' = "handshake"
            /\ emitted' = <<>>
       ELSE /\ socket' = "unconnected"
            /\ pc' = IF o = "other" THEN "conn_cleanup" ELSE ConnectFailedPc
            /\ emitted' = ConnectFailedEvents(o)
    /\ UNCHANGED <<running, reconnect_attempts, total_messages, bad_word_count,
                   chat_messages, chat_mutex, badwords_th, badwords_en,
                   wlocals, cvars, envvars, ghosts>>

\* connect_to_twitch: the NICK and JOIN writes
Handshake(ok) ==
    /\ pc = "handshake"
    /\ IF socket = "connected" /\ ok
       THEN /\ sent' = <<"NICK", "JOIN">>
            /\ emitted' = <<>>
            /\ pc' = "conn_ok"
            /\ UNCHANGED socket
       ELSE /\ sent' = <<>>
            /\ emitted' = ConnectFailedEvents("other")
            /\ pc' = "conn_cleanup"
            /\ UNCHANGED socket
    /\ UNCHANGED <<running, reconnect_attempts, total_messages, bad_word_count,
                   chat_messages, chat_mutex, badwords_th, badwords_en,
                   wlocals, cvars, envvars, ghosts>>

\* connect_to_twitch, except Exception: if self.socket
ConnCleanupCheck ==
    /\ pc = "conn_cleanup"
    /\ pc' = IF socket # "None" THEN "conn_close" ELSE ConnectFailedPc
    /\ Quiet
    /\ UNCHANGED <<wfields, wlocals, cvars, envvars, ghosts>>

\* connect_to_twitch, except Exception: self.socket.close(); when the attribute has
\* become None the AttributeError is swallowed by the bare except
ConnCleanupClose ==
    /\ pc = "conn_close"
    /\ IF socket = "None"
       THEN pc' = ConnectFailedPc /\ UNCHANGED socket
       ELSE pc' = "conn_none" /\ socket' = "closed"
    /\ Quiet
    /\ UNCHANGED <<running, reconnect_attempts, total_messages, bad_word_count,
                   chat_messages, chat_mutex, badwords_th, badwords_en,
                   wlocals, cvars, envvars, ghosts>>

\* connect_to_twitch, except Exception: self.socket = None
ConnCleanupNone ==
    /\ pc = "conn_none"
    /\ socket' = "None"
    /\ pc' = ConnectFailedPc
    /\ Quiet
    /\ UNCHANGED <<running, reconnect_attempts, total_messages, bad_word_count,
                   chat_messages, chat_mutex, badwords_th, badwords_en,
                   wlocals, cvars, envvars, ghosts>>

ConnOk_KeepsAttempts ==
    /\ pc = "conn_ok"
    /\ emitted' = <<connection_status(TRUE, "connected")>>
    /\ sent' = <<>>
    /\ pc' = ConnectOkPc
    /\ caller' = "start"
    /\ retry_status' = 0
    /\ UNCHANGED <<running, socket, reconnect_attempts, total_messages, bad_word_count,
                   chat_messages, chat_mutex, badwords_th, badwords_en,
                   buffer, line, wait_time, reg, user_part, message, thai_words,
                   found_words, cvars, envvars, framed, wire0, used_th, clock>>
    /\ received' = "none"

ConnOk_ClearsBuffer ==
    /\ pc = "conn_ok"
    /\ emitted' = <<connection_status(TRUE, "connected")>>
    /\ sent' = <<>>
    /\ reconnect_attempts' = 0
    /\ pc' = ConnectOkPc
    /\ caller' = "start"
    /\ retry_status' = 0
    /\ buffer' = <<>>
    /\ UNCHANGED <<running, socket, total_messages, bad_word_count,
                   chat_messages, chat_mutex, badwords_th, badwords_en,
                   line, wait_time, reg, user_part, message, thai_words,
                   found_words, cvars, envvars, framed, wire0, used_th, clock>>
    /\ received' = "none"

ConnOk_ResetsStatistics ==
    /\ pc = "conn_ok"
    /\ emitted' = <<connection_status(TRUE, "connected")>>
    /\ sent' = <<>>
    /\ reconnect_attempts' = 0
    /\ pc' = ConnectOkPc
    /\ caller' = "start"
    /\ retry_status' = 0
    /\ total_messages' = 0
    /\ bad_word_count' = 0
    /\ UNCHANGED <<running, socket, chat_messages, chat_mutex, badwords_th, badwords_en,
                   buffer, line, wait_time, reg, user_part, message, thai_words,
                   found_words, cvars, envvars, framed, wire0, used_th, clock>>
    /\ received' = "none"

\* connect_to_twitch: the success path after the writes
ConnOk ==
    /\ pc = "conn_ok"
    /\ emitted' = <<connection_status(TRUE, "connected")>>
    /\ sent' = <<>>
    /\ reconnect_attempts' = 0
    /\ pc' = ConnectOkPc
    /\ caller' = "start"
    /\ retry_status' = 0
    /\ UNCHANGED <<running, socket, total_messages, bad_word_count,
                   chat_messages, chat_mutex, badwords_th, badwords_en,
                   buffer, line, wait_time, reg, user_part, message, thai_words,
                   found_words, cvars, envvars, framed, wire0, used_th, clock>>
    /\ received' = "none"

\* start_listening: self.running = True, then listen_to_chat
SetRunning ==
    /\ pc = "set_running"
    /\ running' = TRUE
    /\ pc' = "loop"
    /\ Quiet
    /\ UNCHANGED <<socket, reconnect_attempts, total_messages, bad_word_count,
                   chat_messages, chat_mutex, badwords_th, badwords_en,
                   wlocals, cvars, envvars, ghosts>>

\* listen_to_chat: the loop condition and the check of the socket
LoopCheck ==
    /\ pc = "loop"
    /\ pc' = IF running /\ socket # "None" THEN "recv" ELSE "done"
    /\ Quiet
    /\ received' = "none"
    /\ UNCHANGED <<wfields, wlocals, cvars, envvars, marks>>

\* except socket.error
OnSocketError ==
    IF running
    THEN /\ emitted' = <<connection_status(FALSE, "lost")>>
         /\ retry_status' = 0
         /\ caller' = "hce_sock"
         /\ pc' = "hce_loop"
    ELSE /\ emitted' = <<>>
         /\ pc' = "loop"
         /\ UNCHANGED <<caller, retry_status>>

\* except Exception
OnOtherException ==
    IF running
    THEN /\ emitted' = <<error_occurred("Chat listening error"),
                         connection_status(FALSE, "lost")>>
         /\ retry_status' = 0
         /\ caller' = "hce_exc"
         /\ pc' = "hce_loop"
    ELSE /\ emitted' = <<>>
         /\ pc' = "loop"
         /\ UNCHANGED <<caller, retry_status>>

RecvTimeout_AsError ==
    /\ pc = "recv"
    /\ socket \in {"connected", "unconnected"}
    /\ OnSocketError
    /\ sent' = <<>>
    /\ received' = "timeout"
    /\ UNCHANGED <<wfields, buffer, line, wait_time, reg, user_part, message,
                   thai_words, found_words, cvars, envvars,
                   framed, wire0, used_th, clock>>

RecvEmpty_AsError ==
    /\ pc = "recv"
    /\ socket = "connected"
    /\ OnSocketError
    /\ sent' = <<>>
    /\ received' = "empty"
    /\ UNCHANGED <<wfields, buffer, line, wait_time, reg, user_part, message,
                   thai_words, found_words, cvars, envvars,
                   framed, wire0, used_th, clock>>

\* recv: nothing within the timeout
RecvTimeout ==
    /\ pc = "recv"
    /\ socket \in {"connected", "unconnected"}
    /\ pc' = "loop"
    /\ Quiet
    /\ received' = "timeout"
    /\ UNCHANGED <<wfields, wlocals, cvars, envvars, marks>>

\* recv: zero bytes
RecvEmpty ==
    /\ pc = "recv"
    /\ socket = "connected"
    /\ pc' = "loop"
    /\ Quiet
    /\ received' = "empty"
    /\ UNCHANGED <<wfields, wlocals, cvars, envvars, marks>>

\* recv raises a socket error: a broken connection, a socket that is not connected
\* or one that was closed
RecvError ==
    /\ pc = "recv"
    /\ socket # "None"
    /\ OnSocketError
    /\ sent' = <<>>
    /\ UNCHANGED <<wfields, buffer, line, wait_time, reg, user_part, message,
                   thai_words, found_words, cvars, envvars,
                   framed, wire0, used_th, clock>>
    /\ received' = "error"

\* self.socket became None after the check: AttributeError
RecvNoSocket ==
    /\ pc = "recv"
    /\ socket = "None"
    /\ OnOtherException
    /\ sent' = <<>>
    /\ UNCHANGED <<wfields, buffer, line, wait_time, reg, user_part, message,
                   thai_words, found_words, cvars, envvars,
                   framed, wire0, used_th, clock>>
    /\ received' = "other"

\* an exception that is not a socket error is raised in the body of the loop (a
\* MemoryError in recv(1024), in decode or in buffer += data)
RecvOther ==
    /\ pc = "recv"
    /\ socket # "None"
    /\ OnOtherException
    /\ sent' = <<>>
    /\ UNCHANGED <<wfields, buffer, line, wait_time, reg, user_part, message,
                   thai_words, found_words, cvars, envvars,
                   framed, wire0, used_th, clock>>
    /\ received' = "other"

\* recv returns the next k bytes of the stream
RecvData(k) ==
    /\ pc = "recv"
    /\ socket = "connected"
    /\ k \in 1..Len(wire)
    /\ wire' = SubSeq(wire, k + 1, Len(wire))
    /\ LET data == Decode(SubSeq(wire, 1, k)) IN
       IF data = <<>>
       THEN pc' = "loop" /\ UNCHANGED buffer
       ELSE pc' = "lines" /\ buffer' = buffer \o data
    /\ Quiet
    /\ UNCHANGED <<wfields, caller, line, wait_time, reg, user_part, message,
                   thai_words, found_words, cvars, files, nsent, oracle, prev, marks>>
    /\ received' = "data"

\* the inner loop finds no complete line left
LinesDone ==
    /\ pc = "lines"
    /\ IndexOf(buffer, LF) = 0
    /\ pc' = "loop"
    /\ Quiet
    /\ received' = "none"
    /\ UNCHANGED <<wfields, wlocals, cvars, envvars, marks>>

\* the inner loop takes the next line and dispatches it
NextLine(sendok) ==
    /\ pc = "lines"
    /\ IndexOf(buffer, LF) # 0
    /\ buffer' = AfterFirstLine(buffer)
    /\ LET l == TrimLine(FirstLine(buffer)) IN
       /\ line' = IF l # <<>> /\ ~IsPing(l) /\ HasPrivmsg(l) THEN l ELSE <<>>
       /\ framed' = IF l = <<>> THEN framed ELSE Append(framed, l)
       /\ IF l # <<>> /\ IsPing(l) /\ socket # "None"
          THEN IF socket = "connected" /\ sendok
               THEN /\ sent' = <<pong_response(l)>>
                    /\ emitted' = <<>>
                    /\ pc' = "lines"
                    /\ UNCHANGED <<caller, retry_status>>
               ELSE /\ sent' = <<>>
                    /\ OnSocketError
          ELSE /\ Quiet
               /\ pc' = IF l # <<>> /\ ~IsPing(l) /\ HasPrivmsg(l) THEN "pcm" ELSE "lines"
               /\ UNCHANGED <<caller, retry_status>>
    /\ UNCHANGED <<wfields, wait_time, reg, user_part, message,
                   thai_words, found_words, cvars, envvars,
                   wire0, used_th, clock, received>>

-----------------------------------------------------------------------------
(* process_chat_message *)

\* the parse; for a valid line the read of self.total_messages
PcmParse ==
    /\ pc = "pcm"
    /\ IF HasMessage(line)
       THEN /\ user_part' = UserPart(line)
            /\ message' = MessageOf(line)
            /\ reg' = total_messages
            /\ pc' = "pcm_total"
       ELSE /\ pc' = "lines"
            /\ UNCHANGED <<user_part, message, reg>>
    /\ line' = <<>>
    /\ Quiet
    /\ UNCHANGED <<wfields, caller, buffer, wait_time, thai_words, found_words,
                   cvars, envvars, ghosts>>

\* the write of self.total_messages += 1 and message_received.emit
PcmTotal ==
    /\ pc = "pcm_total"
    /\ total_messages' = reg + 1
    /\ reg' = 0
    /\ emitted' = <<message_received(user_part, message)>>
    /\ sent' = <<>>
    /\ pc' = "cls_th"
    /\ UNCHANGED <<running, socket, reconnect_attempts, bad_word_count,
                   chat_messages, chat_mutex, badwords_th, badwords_en,
                   caller, buffer, line, wait_time, user_part, message,
                   thai_words, found_words, cvars, envvars, ghosts>>

\* optimized_detect_bad_words: the call of detect_thai_profanity. When the path
\* raises (fail), its handler logs and returns the empty list.
ClassifyThai(fail) ==
    /\ pc = "cls_th"
    /\ thai_words' = IF fail THEN <<>> ELSE detect_thai_profanity(message, badwords_th)
    /\ used_th' = badwords_th
    /\ pc' = "cls_en"
    /\ Quiet
    /\ UNCHANGED <<wfields, caller, buffer, line, wait_time, reg, user_part, message,
                   found_words, cvars, envvars, framed, wire0, retry_status, clock, received>>

ClassifyEnglish_AlwaysFlags(seg, fail) ==
    /\ pc = "cls_en"
    /\ found_words' =
           optimized_detect_bad_words(thai_words,
               IF fail THEN <<>> ELSE detect_english_profanity(message, badwords_en, seg))
    /\ used_th' = {}
    /\ thai_words' = <<>>
    /\ pc' = "pcm_bad"
    /\ Quiet
    /\ UNCHANGED <<wfields, caller, buffer, line, wait_time, reg, user_part, message,
                   cvars, envvars, framed, wire0, retry_status, clock, received>>

\* optimized_detect_bad_words: the call of detect_english_profanity and the return
\* of list(set(all_found_words)). When the path raises (fail), its handler logs and
\* returns the empty list.
ClassifyEnglish(seg, fail) ==
    /\ pc = "cls_en"
    /\ found_words' =
           optimized_detect_bad_words(thai_words,
               IF fail THEN <<>> ELSE detect_english_profanity(message, badwords_en, seg))
    /\ used_th' = {}
    /\ thai_words' = <<>>
    /\ IF found_words' # <<>>
       THEN pc' = "pcm_bad" /\ UNCHANGED <<user_part, message>>
       ELSE pc' = "lines" /\ user_part' = <<>> /\ message' = <<>>
    /\ Quiet
    /\ UNCHANGED <<wfields, caller, buffer, line, wait_time, reg,
                   cvars, envvars, framed, wire0, retry_status, clock, received>>

\* the read of self.bad_word_count += 1
PcmBadLoad ==
    /\ pc = "pcm_bad"
    /\ reg' = bad_word_count
    /\ pc' = "pcm_bad_store"
    /\ Quiet
    /\ UNCHANGED <<wfields, caller, buffer, line, wait_time, user_part, message,
                   thai_words, found_words, cvars, envvars, ghosts>>

\* the write of self.bad_word_count += 1
PcmBadStore ==
    /\ pc = "pcm_bad_store"
    /\ bad_word_count' = reg + 1
    /\ reg' = 0
    /\ pc' = "pcm_lock"
    /\ Quiet
    /\ UNCHANGED <<running, socket, reconnect_attempts, total_messages,
                   chat_messages, chat_mutex, badwords_th, badwords_en,
                   caller, buffer, line, wait_time, user_part, message,
                   thai_words, found_words, cvars, envvars, ghosts>>

\* self.chat_mutex.lock()
PcmLock ==
    /\ pc = "pcm_lock"
    /\ chat_mutex = "free"
    /\ chat_mutex' = "worker"
    /\ pc' = "pcm_append"
    /\ Quiet
    /\ UNCHANGED <<running, socket, reconnect_attempts, total_messages, bad_word_count,
                   chat_messages, badwords_th, badwords_en,
                   wlocals, cvars, envvars, ghosts>>

\* self.chat_messages.append(chat_info)
PcmAppend ==
    /\ pc = "pcm_append"
    /\ clock' = clock + 1
    /\ chat_messages' =
           DequeAppend(chat_messages, chat_info(clock + 1, user_part, message, found_words))
    /\ pc' = "pcm_unlock"
    /\ Quiet
    /\ UNCHANGED <<running, socket, reconnect_attempts, total_messages, bad_word_count,
                   chat_mutex, badwords_th, badwords_en,
                   wlocals, cvars, envvars, framed, wire0, used_th, retry_status, received>>

\* self.chat_mutex.unlock()
PcmUnlock ==
    /\ pc = "pcm_unlock"
    /\ chat_mutex' = "free"
    /\ pc' = "pcm_emit"
    /\ Quiet
    /\ UNCHANGED <<running, socket, reconnect_attempts, total_messages, bad_word_count,
                   chat_messages, badwords_th, badwords_en,
                   wlocals, cvars, envvars, ghosts>>

PcmEmit_StatsFirst ==
    /\ pc = "pcm_emit"
    /\ emitted' = <<chat_stats(total_messages, bad_word_count),
                    bad_word_detected(user_part, message, found_words)>>
    /\ sent' = <<>>
    /\ pc' = "lines"
    /\ user_part' = <<>>
    /\ message' = <<>>
    /\ found_words' = <<>>
    /\ UNCHANGED <<wfields, caller, buffer, line, wait_time, reg, thai_words,
                   cvars, envvars, ghosts>>

\* bad_word_detected.emit and chat_stats.emit
PcmEmit ==
    /\ pc = "pcm_emit"
    /\ emitted' = <<bad_word_detected(user_part, message, found_words),
                    chat_stats(total_messages, bad_word_count)>>
    /\ sent' = <<>>
    /\ pc' = "lines"
    /\ user_part' = <<>>
    /\ message' = <<>>
    /\ found_words' = <<>>
    /\ UNCHANGED <<wfields, caller, buffer, line, wait_time, reg, thai_words,
                   cvars, envvars, ghosts>>

-----------------------------------------------------------------------------
(* handle_connection_error *)

RetryAllowed_NoBudget == running

\* while self.reconnect_attempts < self.max_reconnect_attempts and self.running
RetryAllowed == reconnect_attempts < max_reconnect_attempts /\ running

\* one pass of the retry loop up to the wait, or the return of False
HceLoop ==
    /\ pc = "hce_loop"
    /\ sent' = <<>>
    /\ IF RetryAllowed
       THEN /\ reconnect_attempts' = reconnect_attempts + 1
            /\ emitted' = <<connection_status(FALSE, "retry")>>
            /\ retry_status' = retry_status + 1
            /\ wait_time' = WaitTime(reconnect_attempts + 1)
            /\ pc' = "hce_sleep"
            /\ UNCHANGED caller
       ELSE /\ emitted' = <<>>
            /\ pc' = HceFailedPc
            /\ caller' = "start"
            /\ retry_status' = 0
            /\ UNCHANGED <<reconnect_attempts, wait_time>>
    /\ UNCHANGED <<running, socket, total_messages, bad_word_count,
                   chat_messages, chat_mutex, badwords_th, badwords_en,
                   buffer, line, reg, user_part, message, thai_words, found_words,
                   cvars, envvars, framed, wire0, used_th, clock>>
    /\ received' = "none"

\* time.sleep(wait_time), then the call of connect_to_twitch
HceSleep ==
    /\ pc = "hce_sleep"
    /\ pc' = "connect"
    /\ wait_time' = 0
    /\ Quiet
    /\ UNCHANGED <<wfields, caller, buffer, line, reg, user_part, message,
                   thai_words, found_words, cvars, envvars, ghosts>>

-----------------------------------------------------------------------------
(* The controller: operations of BadWordDetectorApp on the worker *)

\* stop_listening: self.running = False
StopBegin ==
    /\ cpc = "idle"
    /\ running' = FALSE
    /\ cpc' = "stop_check"
    /\ UNCHANGED <<emitted, sent>>
    /\ UNCHANGED <<socket, reconnect_attempts, total_messages, bad_word_count,
                   chat_messages, chat_mutex, badwords_th, badwords_en,
                   pc, wlocals, loaded, snapshot, connect_btn, envvars, ghosts>>

\* stop_listening: if self.socket
StopCheck ==
    /\ cpc = "stop_check"
    /\ cpc' = IF socket # "None" THEN "stop_close" ELSE "detached"
    /\ UNCHANGED <<emitted, sent>>
    /\ UNCHANGED <<wfields, pc, wlocals, loaded, snapshot, connect_btn, envvars, ghosts>>

StopClose_NoHandler ==
    /\ cpc = "stop_close"
    /\ IF socket = "None"
       THEN cpc' = "raised" /\ UNCHANGED socket
       ELSE cpc' = "stop_none" /\ socket' = "closed"
    /\ UNCHANGED <<emitted, sent>>
    /\ UNCHANGED <<running, reconnect_attempts, total_messages, bad_word_count,
                   chat_messages, chat_mutex, badwords_th, badwords_en,
                   pc, wlocals, loaded, snapshot, connect_btn, envvars, ghosts>>

\* stop_listening: self.socket.close(); when the attribute has become None the
\* AttributeError goes to the handler, which sets self.socket = None as well
StopClose ==
    /\ cpc = "stop_close"
    /\ IF socket = "None"
       THEN cpc' = "stop_none" /\ UNCHANGED socket
       ELSE cpc' = "stop_none" /\ socket' = "closed"
    /\ UNCHANGED <<emitted, sent>>
    /\ UNCHANGED <<running, reconnect_attempts, total_messages, bad_word_count,
                   chat_messages, chat_mutex, badwords_th, badwords_en,
                   pc, wlocals, loaded, snapshot, connect_btn, envvars, ghosts>>

\* stop_listening: self.socket = None
StopNone ==
    /\ cpc = "stop_none"
    /\ socket' = "None"
    /\ cpc' = "detached"
    /\ UNCHANGED <<emitted, sent>>
    /\ UNCHANGED <<running, reconnect_attempts, total_messages, bad_word_count,
                   chat_messages, chat_mutex, badwords_th, badwords_en,
                   pc, wlocals, loaded, snapshot, connect_btn, envvars, ghosts>>

\* clear_memory_messages: self.chat_mutex.lock() and self.chat_messages.clear()
ClearMessages ==
    /\ cpc = "idle"
    /\ chat_mutex = "free"
    /\ chat_mutex' = "ctl"
    /\ chat_messages' = <<>>
    /\ cpc' = "clr_total"
    /\ UNCHANGED <<emitted, sent>>
    /\ UNCHANGED <<running, socket, reconnect_attempts, total_messages, bad_word_count,
                   badwords_th, badwords_en,
                   pc, wlocals, loaded, snapshot, connect_btn, envvars, ghosts>>

\* clear_memory_messages: self.total_messages = 0
ClearTotal ==
    /\ cpc = "clr_total"
    /\ total_messages' = 0
    /\ cpc' = "clr_bad"
    /\ UNCHANGED <<emitted, sent>>
    /\ UNCHANGED <<running, socket, reconnect_attempts, bad_word_count,
                   chat_messages, chat_mutex, badwords_th, badwords_en,
                   pc, wlocals, loaded, snapshot, connect_btn, envvars, ghosts>>

\* clear_memory_messages: self.bad_word_count = 0 and self.chat_mutex.unlock()
ClearBad ==
    /\ cpc = "clr_bad"
    /\ bad_word_count' = 0
    /\ chat_mutex' = "free"
    /\ cpc' = "idle"
    /\ UNCHANGED <<emitted, sent>>
    /\ UNCHANGED <<running, socket, reconnect_attempts, total_messages,
                   chat_messages, badwords_th, badwords_en,
                   pc, wlocals, loaded, snapshot, connect_btn, envvars, ghosts>>

GetChatMessages_NoLock ==
    /\ cpc = "idle"
    /\ snapshot' = chat_messages
    /\ cpc' = "export"
    /\ UNCHANGED <<emitted, sent>>
    /\ UNCHANGED <<wfields, pc, wlocals, loaded, connect_btn, envvars, ghosts>>

\* get_chat_messages: list(self.chat_messages) between lock() and unlock()
GetChatMessages ==
    /\ cpc = "idle"
    /\ chat_mutex = "free"
    /\ snapshot' = chat_messages
    /\ cpc' = "export"
    /\ UNCHANGED <<emitted, sent>>
    /\ UNCHANGED <<wfields, pc, wlocals, loaded, connect_btn, envvars, ghosts>>

\* export_log: the rows are written and the snapshot is dropped
ExportDone ==
    /\ cpc = "export"
    /\ snapshot' = <<>>
    /\ cpc' = "idle"
    /\ UNCHANGED <<emitted, sent>>
    /\ UNCHANGED <<wfields, pc, wlocals, loaded, connect_btn, envvars, ghosts>>

\* open_badword_manager: the dialog has rewritten the files; load_bad_words()
ReloadLoad(fs) ==
    /\ cpc = "idle"
    /\ files' = fs
    /\ loaded' = load_bad_words(fs)
    /\ cpc' = "reload_th"
    /\ UNCHANGED <<emitted, sent>>
    /\ UNCHANGED <<wfields, pc, wlocals, snapshot, connect_btn, wire, nsent, oracle, prev,
                   ghosts>>

\* open_badword_manager: the assignment of worker.badwords_th
ReloadStoreTh ==
    /\ cpc = "reload_th"
    /\ badwords_th' = loaded.th
    /\ cpc' = "reload_en"
    /\ UNCHANGED <<emitted, sent>>
    /\ UNCHANGED <<running, socket, reconnect_attempts, total_messages, bad_word_count,
                   chat_messages, chat_mutex, badwords_en,
                   pc, wlocals, loaded, snapshot, connect_btn, envvars, ghosts>>

\* open_badword_manager: the assignment of worker.badwords_en
ReloadStoreEn ==
    /\ cpc = "reload_en"
    /\ badwords_en' = loaded.en
    /\ cpc' = "idle"
    /\ UNCHANGED <<emitted, sent>>
    /\ UNCHANGED <<running, socket, reconnect_attempts, total_messages, bad_word_count,
                   chat_messages, chat_mutex, badwords_th,
                   pc, wlocals, loaded, snapshot, connect_btn, envvars, ghosts>>

-----------------------------------------------------------------------------
(* The classifier under test: a caller that hands messages to
   optimized_detect_bad_words and keeps the previous result *)

NoOracle == [message |-> <<>>, seg |-> [ok |-> FALSE, words |-> <<>>],
             th_fail |-> FALSE, en_fail |-> FALSE, set |-> FALSE]
NoCall == [oracle |-> NoOracle, result |-> <<>>]

\* the messages handed to the classifier under test
ClsMessages ==
    { <<>>,
      <<"b", "a", "d">>,
      <<"B", SP, "a", "d">>,
      <<"a", PING>>,
      <<"!">>,
      <<"th1", "!">> }

\* a call: the message, what segment() gives for it, and whether a path raises
Oracles ==
    {[message |-> m, seg |-> sg, th_fail |-> tf, en_fail |-> ef, set |-> TRUE] :
        m \in ClsMessages, sg \in UNION {SegmentOutcomes(x) : x \in ClsMessages},
        tf \in BOOLEAN, ef \in BOOLEAN}

\* found_words = self.optimized_detect_bad_words(message): the caller hands the next
\* message to the classifier; it keeps the call before and its result when that call
\* was on the same message
ClsCall(orc) ==
    /\ pc \in {"lines", "pcm_bad"}
    /\ orc.seg \in SegmentOutcomes(orc.message)
    /\ prev' = IF oracle.set /\ oracle.message = orc.message
                THEN [oracle |-> oracle, result |-> found_words]
                ELSE NoCall
    /\ oracle' = orc
    /\ message' = orc.message
    /\ found_words' = <<>>
    /\ pc' = "cls_th"
    /\ Quiet
    /\ UNCHANGED <<wfields, caller, buffer, line, wait_time, reg, user_part,
                   thai_words, cvars, wire, files, nsent, ghosts>>

-----------------------------------------------------------------------------
(* The server *)

\* the server sends one more line on the connection. Bytes that arrive while the
\* worker is elsewhere wait in the socket for its next recv, so the arrival is
\* taken at the recv that sees it.
ServerSend(l) ==
    /\ pc = "recv"
    /\ socket = "connected"
    /\ wire = <<>>
    /\ nsent < MaxLines
    /\ nsent' = nsent + 1
    /\ wire' = l
    /\ wire0' = l
    /\ framed' = <<>>
    /\ UNCHANGED <<wfields, pc, wlocals, cvars, files, oracle, prev, emitted, sent,
                   used_th, retry_status, clock, received>>

-----------------------------------------------------------------------------
(* The specification: one session, from the start of the worker thread *)

\* TwitchChatWorker.__init__
WorkerInit ==
    /\ running = FALSE
    /\ socket = "None"
    /\ badwords_th = load_bad_words(FilesV1).th
    /\ badwords_en = load_bad_words(FilesV1).en
    /\ total_messages = 0
    /\ bad_word_count = 0
    /\ chat_messages = <<>>
    /\ chat_mutex = "free"
    /\ reconnect_attempts = 0

\* the locals and the observations before anything ran
LocalsInit ==
    /\ caller = "start"
    /\ buffer = <<>>
    /\ line = <<>>
    /\ wait_time = 0
    /\ reg = 0
    /\ user_part = <<>>
    /\ message = <<>>
    /\ thai_words = <<>>
    /\ found_words = <<>>
    /\ cpc = "idle"
    /\ loaded = load_bad_words(FilesV1)
    /\ snapshot = <<>>
    /\ connect_btn = FALSE
    /\ files = FilesV1
    /\ oracle = NoOracle
    /\ prev = NoCall
    /\ emitted = <<>>
    /\ sent = <<>>
    /\ framed = <<>>
    /\ used_th = {}
    /\ retry_status = 0
    /\ received = "none"

Init ==
    /\ WorkerInit
    /\ LocalsInit
    /\ pc = "start"
    /\ clock = 0
    /\ wire = <<>>
    /\ wire0 = <<>>
    /\ nsent = 0

Worker ==
    \/ StartListening
    \/ \E o \in ConnectOutcomes : Connect(o)
    \/ \E ok \in BOOLEAN : Handshake(ok)
    \/ ConnCleanupCheck
    \/ ConnCleanupClose
    \/ ConnCleanupNone
    \/ ConnOk
    \/ SetRunning
    \/ LoopCheck
    \/ RecvTimeout
    \/ RecvEmpty
    \/ RecvError
    \/ RecvNoSocket
    \/ \E k \in LineCuts(wire) : RecvData(k)
    \/ LinesDone
    \/ \E ok \in BOOLEAN : NextLine(ok)
    \/ PcmParse
    \/ PcmTotal
    \/ \E fail \in BOOLEAN : ClassifyThai(fail)
    \/ \E seg \in SegmentOutcomes(message), fail \in BOOLEAN : ClassifyEnglish(seg, fail)
    \/ PcmBadLoad
    \/ PcmBadStore
    \/ PcmLock
    \/ PcmAppend
    \/ PcmUnlock
    \/ PcmEmit
    \/ HceLoop
    \/ HceSleep

Controller ==
    \/ StopBegin
    \/ StopCheck
    \/ StopClose
    \/ StopNone
    \/ ClearMessages
    \/ ClearTotal
    \/ ClearBad
    \/ GetChatMessages
    \/ ExportDone
    \/ \E fs \in FileVersions : ReloadLoad(fs)
    \/ ReloadStoreTh
    \/ ReloadStoreEn

Server == \E l \in LineSet : ServerSend(l)

Next == Worker \/ Controller \/ Server

Spec == Init /\ [][Next]_vars

-----------------------------------------------------------------------------
(* Reconnection: the retry budget and the backoff *)

\* positions of the worker inside a connection attempt of handle_connection_error
AttemptPcs == {"hce_sleep", "connect", "handshake", "conn_ok",
               "conn_cleanup", "conn_close", "conn_none"}

\* the five attempts of the outage have been made and the last one has failed
Exhausted == reconnect_attempts = max_reconnect_attempts /\ pc \notin AttemptPcs

\* a connection attempt starts in this step
AttemptStarts == pc' \in AttemptPcs /\ pc \notin AttemptPcs

\* C1: once the five reconnection attempts of an outage have all failed, the worker
\* makes no further connection attempt in the session: it stays exhausted, whatever
\* it receives and whatever fails afterwards.
C1_NoAttemptAfterExhaustion ==
    [][Exhausted => (Exhausted' /\ ~AttemptStarts /\ \A o \in ConnectOutcomes : ~Connect(o))]_vars

\* the loop is receiving again after the budget was used up
C1_Witness == Exhausted /\ running /\ pc = "recv" /\ socket = "unconnected"

\* a step of the worker that performs a receive
Receives == pc = "recv" /\ pc' # "recv"

\* a step of the worker that emits a status or an error signal
EmitsStatusOrError ==
    /\ pc' # pc
    /\ \E i \in 1..Len(emitted') : emitted'[i].sig \in {"connection_status", "error_occurred"}

\* C2: after the reconnection attempts are exhausted the worker stops: it performs
\* no receive and emits no status or error signal any more.
C2_StopsAfterExhaustion ==
    [][Exhausted => (~Receives /\ ~EmitsStatusOrError)]_vars

WaitSeq == <<5, 10, 20, 30, 30>>

\* C3: the wait before the n-th reconnection attempt is min(5 * 2^(n-1), 30), that
\* is 5, 10, 20, 30, 30 for n = 1..5, and the pass of the retry loop that leads to
\* the wait emits exactly one status signal, the n-th retry notice of the outage.
C3_BackoffSchedule ==
    pc = "hce_sleep" =>
        /\ reconnect_attempts \in 1..max_reconnect_attempts
        /\ wait_time = WaitSeq[reconnect_attempts]
        /\ wait_time = Min(5 * (2 ^ (reconnect_attempts - 1)), 30)
        /\ emitted = <<connection_status(FALSE, "retry")>>
        /\ retry_status = reconnect_attempts

\* the fifth attempt waits the capped 30 seconds
C3_Witness == pc = "hce_sleep" /\ reconnect_attempts = 5 /\ wait_time = 30

-----------------------------------------------------------------------------
(* The history and the counters in the middle of a session *)

\* the event recorded for the i-th flagged line ChatLine(BadText)
HistEntry(i) == chat_info(i, <<"n">>, BadText, <<BadText>>)

\* a listening worker that has recorded maxlen - 1 flagged messages
InitHist ==
    /\ LocalsInit
    /\ running = TRUE
    /\ socket = "connected"
    /\ badwords_th = load_bad_words(FilesV1).th
    /\ badwords_en = load_bad_words(FilesV1).en
    /\ total_messages = maxlen - 1
    /\ bad_word_count = maxlen - 1
    /\ chat_messages = [i \in 1..(maxlen - 1) |-> HistEntry(i)]
    /\ chat_mutex = "free"
    /\ reconnect_attempts = 0
    /\ pc = "loop"
    /\ clock = maxlen - 1
    /\ wire = <<>>
    /\ wire0 = <<>>
    /\ nsent = 0

\* message processing of the worker against the controller's reset and history read
NextHist ==
    \/ LoopCheck
    \/ \E k \in LineCuts(wire) : RecvData(k)
    \/ LinesDone
    \/ \E ok \in BOOLEAN : NextLine(ok)
    \/ PcmParse
    \/ PcmTotal
    \/ \E fail \in BOOLEAN : ClassifyThai(fail)
    \/ \E seg \in SegmentOutcomes(message), fail \in BOOLEAN : ClassifyEnglish(seg, fail)
    \/ PcmBadLoad
    \/ PcmBadStore
    \/ PcmLock
    \/ PcmAppend
    \/ PcmUnlock
    \/ PcmEmit
    \/ ClearMessages
    \/ ClearTotal
    \/ ClearBad
    \/ GetChatMessages
    \/ ExportDone
    \/ \E l \in LineSet : ServerSend(l)

SpecHist == InitHist /\ [][NextHist]_vars

\* C4: the flagged-event history never holds more than 200 entries, however the
\* worker's appends interleave with get_chat_messages and clear_memory_messages.
C4_HistoryBounded == Len(chat_messages) <= maxlen

\* a flagged event was appended to a full history
C4_Witness == Len(chat_messages) = maxlen /\ clock > maxlen /\ pc = "pcm_unlock"

\* C5: the history is first-in first-out: it holds the most recently recorded
\* events, oldest first and the newest last, so an append to a full history drops
\* exactly the oldest entry; after events #1..#201 it is #2..#201 in order.
C5_FifoEviction ==
    /\ \A i \in 1..Len(chat_messages) :
           chat_messages[i] = HistEntry(clock - Len(chat_messages) + i)
    /\ (clock = maxlen + 1 /\ Len(chat_messages) = maxlen) =>
           /\ chat_messages[1] = HistEntry(2)
           /\ chat_messages[maxlen] = HistEntry(maxlen + 1)

\* event #201 has been recorded and nothing was reset
C5_Witness ==
    /\ clock = maxlen + 1
    /\ Len(chat_messages) = maxlen
    /\ bad_word_count = maxlen + 1
    /\ pc = "lines"

-----------------------------------------------------------------------------
(* The statistics *)

\* C6: total_messages and bad_word_count never decrease from one state to the next,
\* except in the steps of clear_memory_messages that set them to zero.
C6_CountersMonotonic ==
    [][/\ total_messages' < total_messages => (cpc = "clr_total" /\ total_messages' = 0)
       /\ bad_word_count' < bad_word_count => (cpc = "clr_bad" /\ bad_word_count' = 0)]_vars

\* the reset is under way on counters that were not zero
C6_Witness == cpc = "clr_bad" /\ total_messages = 0 /\ bad_word_count > 0

-----------------------------------------------------------------------------
(* Keep-alive *)

\* the line the inner loop takes next
CurrentLine == TrimLine(FirstLine(buffer))

\* the worker takes a keep-alive line from the buffer in this step
PingStep ==
    /\ pc = "lines"
    /\ IndexOf(buffer, LF) # 0
    /\ CurrentLine # <<>>
    /\ Head(CurrentLine) = PING
    /\ buffer' # buffer

IsPong(m) == m # <<>> /\ Head(m) = "PONG"

ChatSigs == {"message_received", "bad_word_detected", "chat_stats"}

\* the step is no chat event: no chat signal, counters and history unchanged
NoChatEffect ==
    /\ \A i \in 1..Len(emitted') : emitted'[i].sig \notin ChatSigs
    /\ pc' # "pcm"
    /\ UNCHANGED <<total_messages, bad_word_count, chat_messages>>

\* C7 as stated: every received keep-alive line causes exactly one outbound PONG and
\* no chat event.
C7_PingExactlyOnePong ==
    [][PingStep => (Len(sent') = 1 /\ IsPong(sent'[1]) /\ NoChatEffect)]_vars

\* C7 as amended: a received keep-alive line causes no chat event and at most one
\* outbound PONG: exactly one when the worker holds its connected socket and the
\* write succeeds, none when the socket is gone (a concurrent stop set it to None)
\* or the write raises, which is handled as a socket error.
C7_PingAtMostOnePong ==
    [][PingStep =>
         /\ NoChatEffect
         /\ \/ Len(sent') = 1 /\ IsPong(sent'[1]) /\ socket = "connected" /\ pc' = "lines"
            \/ sent' = <<>> /\ socket = "None" /\ pc' = "lines"
            \/ sent' = <<>> /\ socket # "None" /\ pc' \in {"hce_loop", "loop"}]_vars

\* a PONG went out for a keep-alive line
C7_Witness == Len(sent) = 1 /\ IsPong(sent[1]) /\ pc = "lines" /\ running

\* the host of 'PING :<host>' and of 'PONG :<host>'
HostOf(m) == m[4]

\* C8: the acknowledgment carries the host of the request it answers.
C8_PongEchoesHost ==
    [][(PingStep /\ Len(sent') = 1) => HostOf(sent'[1]) = HostOf(CurrentLine)]_vars

-----------------------------------------------------------------------------
(* Line framing under arbitrary chunking *)

FrameBytes == {"a", LF, CR, "xE0", "xB8", "x81"}

\* the byte sequences of at most n bytes
ByteSeqs(n) == UNION {[1..m -> FrameBytes] : m \in 0..n}

\* a listening worker and a stream of bytes that is about to arrive
InitFrame ==
    /\ LocalsInit
    /\ running = TRUE
    /\ socket = "connected"
    /\ badwords_th = load_bad_words(FilesV1).th
    /\ badwords_en = load_bad_words(FilesV1).en
    /\ total_messages = 0
    /\ bad_word_count = 0
    /\ chat_messages = <<>>
    /\ chat_mutex = "free"
    /\ reconnect_attempts = 0
    /\ pc = "loop"
    /\ clock = 0
    /\ wire \in ByteSeqs(MaxBytes)
    /\ wire0 = wire
    /\ nsent = 0

\* the listen loop, recv cutting the stream anywhere
NextFrame ==
    \/ LoopCheck
    \/ \E k \in 1..Len(wire) : RecvData(k)
    \/ LinesDone
    \/ \E ok \in BOOLEAN : NextLine(ok)

SpecFrame == InitFrame /\ [][NextFrame]_vars

\* C9: whatever the chunks, once the stream has arrived and its lines are handed on,
\* they are the lines of the stream received in one chunk.
C9_ChunkIndependence ==
    (wire = <<>> /\ pc \in {"loop", "recv"}) => framed = AllLines(Decode(wire0))

-----------------------------------------------------------------------------
(* Lexicon reload against classification *)

\* the pairs (Thai set, English set) a reload can install
LexiconPairs == {load_bad_words(v) : v \in FileVersions}

\* C10: a classification reads the Thai set and the English set of one and the same
\* load of the word lists.
C10_ReloadAtomic ==
    [][(pc = "cls_en" /\ pc' # "cls_en") =>
          \E v \in LexiconPairs : used_th = v.th /\ badwords_en = v.en]_vars

-----------------------------------------------------------------------------
(* The classifier on its own: every call of optimized_detect_bad_words on the
   messages of ClsMessages, with a lexicon that does not change *)

\* word lists with an entry that is in both files
FilesBoth == [th |-> TextFile(<< <<"b", "a", "d">> >>),
              en |-> TextFile(<< <<"b", "a", "d">> >>)]

\* an English list with an entry of two letters and two longer ones, and no Thai list
FilesShort == [th |-> NoFile,
               en |-> TextFile(<< <<"a", "d">>, <<"b", "a", "d">>, <<PING>> >>)]

ClsLexicons == {load_bad_words(v) : v \in FileVersions \cup {FilesBoth, FilesShort}}

InitCls ==
    /\ LocalsInit
    /\ running = TRUE
    /\ socket = "connected"
    /\ \E v \in ClsLexicons : badwords_th = v.th /\ badwords_en = v.en
    /\ total_messages = 0
    /\ bad_word_count = 0
    /\ chat_messages = <<>>
    /\ chat_mutex = "free"
    /\ reconnect_attempts = 0
    /\ pc = "lines"
    /\ clock = 0
    /\ wire = <<>>
    /\ wire0 = <<>>
    /\ nsent = 0

NextCls ==
    \/ \E orc \in Oracles : ClsCall(orc)
    \/ ClassifyThai(oracle.th_fail)
    \/ ClassifyEnglish(oracle.seg, oracle.en_fail)

SpecCls == InitCls /\ [][NextCls]_vars

\* the classification under test has returned
ClsDone == oracle.set /\ pc \in {"lines", "pcm_bad"}

EmittedError == \E i \in 1..Len(emitted) : emitted[i].sig = "error_occurred"

\* C11: when a language path of a classification fails internally, the
\* classification returns the empty match list and an error signal is emitted.
C11_FailureGivesEmptyAndError ==
    (ClsDone /\ (oracle.th_fail \/ oracle.en_fail)) => (found_words = <<>> /\ EmittedError)

\* the entries among the whitespace-split tokens of the cleaned message
SplitMatches(m, en) ==
    {w \in Range(SplitWs(EnglishClean(m))) : StrLen(w) >= 3 /\ w \in en}

\* the entries among the segmented words and the whitespace-split tokens
SegmentMatches(m, en, words) ==
    {w \in Range(words) \cup Range(SplitWs(EnglishClean(m))) : StrLen(w) >= 3 /\ w \in en}

\* C12: when segment() raises, the English result of the call is the match of the
\* whitespace-split tokens alone and nothing escapes; a call whose segment() works
\* uses the segmented words, whatever happened in the call before.
C12_SegmentFallback ==
    [][(pc = "cls_en" /\ pc' # "cls_en" /\ ~oracle.en_fail) =>
          /\ pc' \in {"lines", "pcm_bad"}
          /\ emitted' = <<>>
          /\ Range(found_words') = Range(thai_words) \cup
                 (IF oracle.seg.ok
                  THEN SegmentMatches(message, badwords_en, oracle.seg.words)
                  ELSE SplitMatches(message, badwords_en))]_vars

\* the call before fell back to the tokens of "B ad" and found nothing; this call
\* segments the same message into the entry and finds it
C12_Witness ==
    /\ ClsDone
    /\ oracle.message = <<"B", SP, "a", "d">>
    /\ oracle.seg.ok
    /\ ~oracle.en_fail
    /\ found_words = << <<"b", "a", "d">> >>
    /\ prev.oracle.set
    /\ prev.oracle.message = oracle.message
    /\ ~prev.oracle.seg.ok
    /\ ~prev.oracle.en_fail
    /\ prev.result = <<>>

NoDuplicates(l) == \A i, j \in 1..Len(l) : l[i] = l[j] => i = j

-----------------------------------------------------------------------------
(* The order of the effects of one chat line *)

\* the positions of process_chat_message from the counting of the message on
PcmOrder == <<"pcm_total", "cls_th", "cls_en", "pcm_bad", "pcm_bad_store", "pcm_lock",
              "pcm_append", "pcm_unlock", "pcm_emit">>

\* C14: for a valid chat line the worker counts the message and emits the raw-message
\* signal, then classifies, and only for a non-empty result counts the flagged
\* message, appends the event to the history and emits the flagged signal followed
\* by the statistics signal; the statistics signal is never emitted without the
\* flagged signal immediately before it.
C14_ProcessingOrder ==
    [][/\ \A i \in 1..Len(PcmOrder) :
            (pc = PcmOrder[i] /\ pc' # pc) =>
                \/ i < Len(PcmOrder) /\ pc' = PcmOrder[i + 1]
                       /\ (i = 3 => found_words' # <<>>)
                \/ i = 3 /\ pc' = "lines" /\ found_words' = <<>>
                \/ i = Len(PcmOrder) /\ pc' = "lines"
       /\ (pc' # pc /\ "message_received" \in Range(Sigs(emitted'))) =>
              /\ pc = "pcm_total"
              /\ total_messages' = reg + 1
              /\ emitted' = <<message_received(user_part, message)>>
       /\ (pc # "pcm_bad_store" /\ cpc # "clr_bad") => bad_word_count' = bad_word_count
       /\ pc = "pcm_bad_store" /\ pc' # pc => bad_word_count' = reg + 1
       /\ (pc # "pcm_append" /\ cpc # "idle") => chat_messages' = chat_messages
       /\ pc = "pcm_append" /\ pc' # pc =>
              /\ chat_messages' # <<>>
              /\ chat_messages'[Len(chat_messages')].bad_words = found_words
              /\ found_words # <<>>
       /\ (pc' # pc /\ Range(Sigs(emitted')) \cap {"bad_word_detected", "chat_stats"} # {}) =>
              /\ pc = "pcm_emit"
              /\ Sigs(emitted') = <<"bad_word_detected", "chat_stats">>
              /\ emitted'[1].words = found_words
              /\ emitted'[2].total = total_messages
              /\ emitted'[2].bad = bad_word_count]_vars

\* the flagged signal and the statistics signal of a flagged line have gone out
C14_Witness ==
    /\ pc = "lines"
    /\ Sigs(emitted) = <<"bad_word_detected", "chat_stats">>
    /\ emitted[2].bad >= 1
    /\ chat_messages # <<>>

-----------------------------------------------------------------------------
(* Two chat lines on the way to a listening worker: chunks cut anywhere, the
   connection may break and be made again between any two receives *)

TwoLines == {ChatLine(BadText) \o ChatLine(CleanText), ChatLine(CleanText) \o ChatLine(BadText)}

InitOrder ==
    /\ LocalsInit
    /\ running = TRUE
    /\ socket = "connected"
    /\ badwords_th = load_bad_words(FilesV1).th
    /\ badwords_en = load_bad_words(FilesV1).en
    /\ total_messages = 0
    /\ bad_word_count = 0
    /\ chat_messages = <<>>
    /\ chat_mutex = "free"
    /\ reconnect_attempts = 0
    /\ pc = "loop"
    /\ clock = 0
    /\ wire \in TwoLines
    /\ wire0 = wire
    /\ nsent = MaxLines

\* the listen loop with recv cutting the stream anywhere, socket errors and other
\* exceptions, and the reconnections that follow them
NextOrder ==
    \/ LoopCheck
    \/ RecvTimeout
    \/ RecvEmpty
    \/ RecvError
    \/ RecvOther
    \/ \E k \in 1..Len(wire) : RecvData(k)
    \/ LinesDone
    \/ \E ok \in BOOLEAN : NextLine(ok)
    \/ PcmParse
    \/ PcmTotal
    \/ \E fail \in BOOLEAN : ClassifyThai(fail)
    \/ \E seg \in SegmentOutcomes(message), fail \in BOOLEAN : ClassifyEnglish(seg, fail)
    \/ PcmBadLoad
    \/ PcmBadStore
    \/ PcmLock
    \/ PcmAppend
    \/ PcmUnlock
    \/ PcmEmit
    \/ HceLoop
    \/ HceSleep
    \/ \E o \in ConnectOutcomes : Connect(o)
    \/ \E ok \in BOOLEAN : Handshake(ok)
    \/ ConnCleanupCheck
    \/ ConnCleanupClose
    \/ ConnCleanupNone
    \/ ConnOk

SpecOrder == InitOrder /\ [][NextOrder]_vars

\* the chat events of a step
ChatEvents(evs) ==
    {i \in 1..Len(evs) : evs[i].sig \in {"message_received", "bad_word_detected"}}

\* C15: the events of the k-th chat line received carry the k-th line's message,
\* wherever recv cut the stream and whatever reconnections happened in between:
\* events come out in the order the lines were received.
C15_EventsInLineOrder ==
    [][\A i \in ChatEvents(emitted') :
          /\ total_messages' \in 1..Len(AllLines(Decode(wire0)))
          /\ emitted'[i].msg = MessageOf(AllLines(Decode(wire0))[total_messages'])]_vars

\* a reconnection succeeds between the first line's events and the second line's,
\* with a part of the second line already in the buffer
C15_Witness ==
    /\ pc = "conn_ok"
    /\ caller = "hce_sock"
    /\ total_messages = 1
    /\ buffer # <<>>
    /\ wire # <<>>

-----------------------------------------------------------------------------
(* Disconnecting: disconnect_twitch after stop_listening has returned, and the end
   of the worker's thread *)

\* the positions of the controller after its stop_listening has returned
StopReturned == {"detached", "waiting", "disconnected"}

\* the positions of the worker in which its thread runs start_listening
InStartListening ==
    pc \notin {"start", "done", "w_stop", "w_stop_check", "w_stop_close", "w_stop_none",
               "finished", "terminated"}

\* the positions of the worker inside listen_to_chat, the reconnections of
\* handle_connection_error included
InListenToChat ==
    /\ InStartListening
    /\ pc # "set_running"
    /\ caller = "start" => pc \notin AttemptPcs

\* disconnect_twitch: self.twitch_thread.quit() and the beginning of wait(5000)
Quit ==
    /\ cpc = "detached"
    /\ cpc' = "waiting"
    /\ UNCHANGED <<emitted, sent>>
    /\ UNCHANGED <<wfields, pc, wlocals, loaded, snapshot, connect_btn, envvars, ghosts>>

\* start_listening has returned and quit() ends exec_(): finished is emitted in the
\* ending thread and calls the worker's stop_listening there
ThreadFinish ==
    /\ pc = "done"
    /\ cpc = "waiting"
    /\ pc' = "w_stop"
    /\ Quiet
    /\ UNCHANGED <<wfields, wlocals, cvars, envvars, ghosts>>

\* stop_listening in the worker's thread: self.running = False
WStopBegin ==
    /\ pc = "w_stop"
    /\ running' = FALSE
    /\ pc' = "w_stop_check"
    /\ Quiet
    /\ UNCHANGED <<socket, reconnect_attempts, total_messages, bad_word_count,
                   chat_messages, chat_mutex, badwords_th, badwords_en,
                   wlocals, cvars, envvars, ghosts>>

\* stop_listening in the worker's thread: if self.socket
WStopCheck ==
    /\ pc = "w_stop_check"
    /\ pc' = IF socket # "None" THEN "w_stop_close" ELSE "finished"
    /\ Quiet
    /\ UNCHANGED <<wfields, wlocals, cvars, envvars, ghosts>>

\* stop_listening in the worker's thread: self.socket.close()
WStopClose ==
    /\ pc = "w_stop_close"
    /\ IF socket = "None"
       THEN pc' = "w_stop_none" /\ UNCHANGED socket
       ELSE pc' = "w_stop_none" /\ socket' = "closed"
    /\ Quiet
    /\ UNCHANGED <<running, reconnect_attempts, total_messages, bad_word_count,
                   chat_messages, chat_mutex, badwords_th, badwords_en,
                   wlocals, cvars, envvars, ghosts>>

\* stop_listening in the worker's thread: self.socket = None; the thread ends
WStopNone ==
    /\ pc = "w_stop_none"
    /\ socket' = "None"
    /\ pc' = "finished"
    /\ Quiet
    /\ UNCHANGED <<running, reconnect_attempts, total_messages, bad_word_count,
                   chat_messages, chat_mutex, badwords_th, badwords_en,
                   wlocals, cvars, envvars, ghosts>>

\* disconnect_twitch: wait(5000) returns because the thread has finished
WaitDone ==
    /\ cpc = "waiting"
    /\ pc = "finished"
    /\ cpc' = "disconnected"
    /\ connect_btn' = TRUE
    /\ UNCHANGED <<emitted, sent>>
    /\ UNCHANGED <<wfields, pc, wlocals, loaded, snapshot, envvars, ghosts>>

\* start_listening can keep the thread busy for longer than wait(5000): in the
\* backoff sleep of 5 s or more, in connect with its timeout of 10 s and the sleep
\* after JOIN, and in a listen loop whose running flag is set
MayOutlastWait ==
    \/ pc \in {"hce_sleep", "connect", "handshake", "conn_ok"}
    \/ running /\ InStartListening

\* disconnect_twitch: wait(5000) times out, isRunning() holds, terminate(). The
\* thread is killed where it is; whether the slot connected to finished still runs
\* depends on the platform
Terminate(slot_runs) ==
    /\ cpc = "waiting"
    /\ MayOutlastWait
    /\ cpc' = "disconnected"
    /\ pc' = IF slot_runs THEN "w_stop" ELSE "terminated"
    /\ connect_btn' = TRUE
    /\ UNCHANGED <<emitted, sent>>
    /\ UNCHANGED <<wfields, wlocals, loaded, snapshot, envvars, ghosts>>

StopListening == StopBegin \/ StopCheck \/ StopClose \/ StopNone

WorkerExit == ThreadFinish \/ WStopBegin \/ WStopCheck \/ WStopClose \/ WStopNone

Disconnect == Quit \/ WaitDone \/ \E slot_runs \in BOOLEAN : Terminate(slot_runs)

\* a session from connect_twitch to the end of disconnect_twitch
NextStop == Worker \/ Server \/ StopListening \/ Disconnect \/ WorkerExit

SpecStop == Init /\ [][NextStop]_vars

\* a step of the worker (not of the controller, not of the server)
WorkerStep == cpc' = cpc /\ nsent' = nsent

\* C16: once stop_listening has returned, no step of the worker emits an event.
C16_SilentAfterStop ==
    [][(cpc \in StopReturned /\ WorkerStep) => emitted' = <<>>]_vars

\* C17: when the worker leaves listen_to_chat after a stop that came while it was
\* in the listen loop (running is false, stop_listening has returned), its socket
\* is closed and None.
C17_LeavesWithSocketNone ==
    [][(InListenToChat /\ pc' = "done" /\ cpc \in StopReturned /\ ~running)
          => socket' = "None"]_vars

\* C18: a stop that comes during the reconnection wait ends the wait without a
\* further connection attempt.
C18_NoAttemptAfterStopInWait ==
    [][(pc = "hce_sleep" /\ ~running /\ cpc \in StopReturned) => pc' # "connect"]_vars

\* C19: when disconnect_twitch is complete and the worker's thread has ended or
\* been terminated, the session's socket is not open.
C19_NoOpenSocketAfterDisconnect ==
    (cpc = "disconnected" /\ pc \in {"finished", "terminated"})
        => socket \in {"None", "closed"}

\* C20: stop_listening raises nothing, also when the worker's cleanup in
\* connect_to_twitch drops the socket between its test and its close, and once both
\* the controller's call and the worker's own call have returned, running is false
\* and the socket is None.
C20_StopIdempotent ==
    /\ cpc # "raised"
    /\ (cpc \in StopReturned /\ pc = "finished") => (~running /\ socket = "None")

\* the second call (in the worker's thread) has returned after the first
C20_Witness ==
    /\ cpc = "disconnected"
    /\ pc = "finished"
    /\ ~running
    /\ socket = "None"

-----------------------------------------------------------------------------
(* The mutex around the history and the counters *)

\* the shared fields: the history and the two counters
Shared == <<chat_messages, total_messages, bad_word_count>>

\* the positions of the worker between chat_mutex.lock() and chat_mutex.unlock()
WorkerLocked == {"pcm_append", "pcm_unlock"}

\* C21: every write of the history or of a counter is made by the holder of
\* chat_mutex (the worker's by the worker holding it, the controller's by the
\* controller holding it), and the worker holds the mutex only between lock() and
\* unlock() of the append, never in a blocking call.
C21_SharedUnderMutex ==
    /\ [](chat_mutex = "worker" => pc \in WorkerLocked)
    /\ [][Shared' # Shared =>
            IF cpc' = cpc THEN chat_mutex = "worker" ELSE chat_mutex' = "ctl" \/ chat_mutex = "ctl"]_vars

-----------------------------------------------------------------------------
(* The status events of connect_to_twitch *)

\* the connection-status events of a step
StatusEvents(evs) == {i \in 1..Len(evs) : evs[i].sig = "connection_status"}

ErrorTexts == {ConnectErrorText(o) : o \in ConnectOutcomes \ {"ok"}}

\* the step emits the one status Failed with an error description, and the call
\* goes on to return False
FailedStep ==
    /\ Cardinality(StatusEvents(emitted')) = 1
    /\ \A i \in StatusEvents(emitted') : ~emitted'[i].ok /\ emitted'[i].text \in ErrorTexts
    /\ pc' \in {"conn_cleanup", ConnectFailedPc}

\* the step emits no status
SilentStep == StatusEvents(emitted') = {}

\* C22: a call of connect_to_twitch goes through connect, the handshake writes and
\* the Connected emit; the first failing step emits the single status Failed and
\* leads to the return of False, the steps before and after it emit no status, and
\* the single status Connected is emitted by the step that returns True, after
\* connect and both writes have succeeded.
C22_OneStatusPerConnect ==
    [][(cpc' = cpc /\ pc' # pc) =>
          /\ pc = "connect" => IF pc' = "handshake" THEN SilentStep ELSE FailedStep
          /\ pc = "handshake" =>
                IF pc' = "conn_ok" THEN SilentStep /\ sent' = <<"NICK", "JOIN">>
                ELSE FailedStep
          /\ pc \in {"conn_cleanup", "conn_close", "conn_none"} =>
                SilentStep /\ pc' \in {"conn_close", "conn_none", ConnectFailedPc}
          /\ pc = "conn_ok" =>
                /\ Cardinality(StatusEvents(emitted')) = 1
                /\ \A i \in StatusEvents(emitted') : emitted'[i].ok
                /\ pc' = ConnectOkPc]_vars

\* a reconnection has just returned True with its status Connected
C22_Witness ==
    /\ pc = "loop"
    /\ reconnect_attempts = 0
    /\ emitted = <<connection_status(TRUE, "connected")>>
    /\ socket = "connected"

-----------------------------------------------------------------------------
(* process_chat_message on its own: one line with the chat-message marker, handed
   over by the inner loop of listen_to_chat *)

\* what stands before the marker: a full prefix, one without '!', one with an empty
\* nick, and nothing
Prefixes ==
    {<<":", "n", "!", "u", "@", "h", SP>>, <<":", "n", SP>>,
     <<":", "!", "u", "@", "h", SP>>, <<>>}

\* message texts: plain, flagged (three ways), with ':', with '!', with the marker, with blanks
\* around, empty
Texts ==
    {<<"a">>, BadText, <<"B", "a", "d">>, <<"th1">>, <<"a", ":", "b">>, <<"a", "!", "b">>,
     <<"a", SP, PRIVMSG, SP, "b">>, <<SP, "a", SP>>, <<>>}

\* what follows the marker: the channel and ':' with a text, or no ':' at all
Tails == {<<SP, "#", SP, ":">> \o t : t \in Texts} \cup {<<SP, "#", SP, "a">>}

ParseLines == {pre \o <<PRIVMSG>> \o tail : pre \in Prefixes, tail \in Tails}

InitParse ==
    /\ caller = "start"
    /\ buffer = <<>>
    /\ line \in ParseLines
    /\ wait_time = 0
    /\ reg = 0
    /\ user_part = <<>>
    /\ message = <<>>
    /\ thai_words = <<>>
    /\ found_words = <<>>
    /\ cpc = "idle"
    /\ loaded = load_bad_words(FilesV1)
    /\ snapshot = <<>>
    /\ connect_btn = FALSE
    /\ files = FilesV1
    /\ oracle = NoOracle
    /\ prev = NoCall
    /\ emitted = <<>>
    /\ sent = <<>>
    /\ framed = <<>>
    /\ used_th = {}
    /\ retry_status = 0
    /\ received = "none"
    /\ running = TRUE
    /\ socket = "connected"
    /\ badwords_th = load_bad_words(FilesV1).th
    /\ badwords_en = load_bad_words(FilesV1).en
    /\ total_messages = 0
    /\ bad_word_count = 0
    /\ chat_messages = <<>>
    /\ chat_mutex = "free"
    /\ reconnect_attempts = 0
    /\ pc = "pcm"
    /\ clock = 0
    /\ wire = <<>>
    /\ wire0 = <<>>
    /\ nsent = MaxLines

NextParse ==
    \/ PcmParse
    \/ PcmTotal
    \/ \E fail \in BOOLEAN : ClassifyThai(fail)
    \/ \E seg \in SegmentOutcomes(message), fail \in BOOLEAN : ClassifyEnglish(seg, fail)
    \/ PcmBadLoad
    \/ PcmBadStore
    \/ PcmLock
    \/ PcmAppend
    \/ PcmUnlock
    \/ PcmEmit

SpecParse == InitParse /\ [][NextParse]_vars

\* the line yields a username and a message: a '!' in the prefix, a non-empty
\* name between the leading sigil and that '!', and a ':' after the marker
ValidChat(l) ==
    /\ IndexOf(Parts0(l), "!") >= 3
    /\ IndexOf(Parts1(l), ":") # 0

\* C23: a line with the marker that does not yield a valid username and message is
\* dropped silently: process_chat_message returns without touching the counters or
\* the history and without emitting anything.
C23_InvalidDropped ==
    [][(pc = "pcm" /\ ~ValidChat(line)) =>
          /\ pc' = "lines"
          /\ emitted' = <<>>
          /\ UNCHANGED <<total_messages, bad_word_count, chat_messages>>]_vars

\* the line ':<nick>!u@h PRIVMSG # :<text>'
ChatLineOf(nick, text) ==
    <<":">> \o nick \o <<"!", "u", "@", "h", SP, PRIVMSG, SP, "#", SP, ":">> \o text

\* C24: for a line ':<nick>!<user>@<host> PRIVMSG #<channel> :<text>' the username
\* is <nick> and the message is the whole of <text>, trimmed.
C24_ExtractsNickAndText ==
    [][\A t \in Texts :
          (pc = "pcm" /\ line = ChatLineOf(<<"n">>, t)) =>
              /\ pc' = "pcm_total"
              /\ user_part' = <<"n">>
              /\ message' = Strip(t)]_vars

-----------------------------------------------------------------------------
(* Listening again after a reconnection *)

\* C25: when a reconnection attempt of handle_connection_error succeeds, the worker
\* goes back to the receive loop, whatever failure started the reconnection.
C25_ListensAfterReconnect ==
    [][(pc = "conn_ok" /\ caller # "start") => pc' = "loop"]_vars

-----------------------------------------------------------------------------
(* load_bad_words on its own: the two word-list files with any contents *)

\* lines of a word-list file: an entry with blanks around and a capital, a blank
\* line, an entry with a trailing tab
FileLineSet == {<<SP, "B", "a", "d", SP>>, <<SP>>, <<"a", "d", TAB>>}

\* a file that is missing, or one with at most MaxFileLines lines
FileContents ==
    {NoFile} \cup {TextFile(ls) : ls \in UNION {[1..n -> FileLineSet] : n \in 0..MaxFileLines}}

LoadInputs == {[th |-> a, en |-> b] : a, b \in FileContents}

\* the word lists are rewritten and loaded again, and the result is installed
NextLoad ==
    \/ \E fs \in LoadInputs : ReloadLoad(fs)
    \/ ReloadStoreTh
    \/ ReloadStoreEn

SpecLoad == Init /\ [][NextLoad]_vars

\* the set s is what the file f has to give: nothing when f is missing, otherwise
\* one entry for every line that is not blank, each entry non-empty, trimmed and
\* lowercased
LoadedFrom(s, f) ==
    /\ ~f.present => s = {}
    /\ \A w \in s : w # <<>> /\ Strip(w) = w /\ Lower(w) = w
    /\ f.present =>
          /\ \A i \in 1..Len(f.lines) :
                Strip(f.lines[i]) # <<>> => Lower(Strip(f.lines[i])) \in s
          /\ \A w \in s : \E i \in 1..Len(f.lines) : w = Lower(Strip(f.lines[i]))

\* C26: load_bad_words returns, for each language, the empty set when its file is
\* missing and otherwise the non-blank lines of the file, trimmed and lowercased;
\* a missing file does not affect the other language.
C26_LoadToleratesMissingFile ==
    cpc \in {"reload_th", "reload_en"} =>
        LoadedFrom(loaded.th, files.th) /\ LoadedFrom(loaded.en, files.en)

\* the Thai file is missing and the English file has been loaded in full
C26_Witness ==
    /\ cpc = "reload_th"
    /\ ~files.th.present
    /\ files.en = TextFile(<< <<SP, "B", "a", "d", SP>>, <<"a", "d", TAB>> >>)
    /\ loaded = [th |-> {}, en |-> {<<"b", "a", "d">>, <<"a", "d">>}]

-----------------------------------------------------------------------------
(* The snapshot of get_chat_messages *)

\* the entries of h are in the order of their recording, oldest first
OldestFirst(h) == \A i, j \in 1..Len(h) : i < j => h[i].timestamp < h[j].timestamp

\* C27: get_chat_messages returns the history as it is at the instant of the call,
\* oldest entry first, taken while the worker is not inside its locked append; the
\* call changes neither the history nor the counters, and what the worker appends
\* or evicts afterwards does not change the list that was returned.
C27_SnapshotIsStable ==
    [][/\ (cpc = "idle" /\ cpc' = "export") =>
             /\ snapshot' = chat_messages
             /\ OldestFirst(snapshot')
             /\ pc \notin WorkerLocked
             /\ UNCHANGED <<chat_messages, total_messages, bad_word_count>>
       /\ (cpc = "export" /\ cpc' = "export") => snapshot' = snapshot]_vars

\* the worker has appended to the full history, evicting the oldest entry, after
\* the snapshot was returned
C27_Witness ==
    /\ cpc = "export"
    /\ Len(snapshot) = maxlen
    /\ Len(chat_messages) = maxlen
    /\ snapshot[1] = HistEntry(1)
    /\ chat_messages[1] = HistEntry(2)

-----------------------------------------------------------------------------
(* What each path reports *)

\* C28: a word reported by the segmentation-assisted path is one of its candidate
\* tokens, has at least 3 characters and is itself an entry of the English lexicon;
\* entries of 1 or 2 characters and tokens that only contain an entry are not
\* reported by it.
C28_EnglishExactAndLong ==
    [][(pc = "cls_en" /\ pc' # "cls_en") =>
          \A w \in Range(found_words') \ Range(thai_words) :
              /\ w \in Range(WordsToCheck(message, oracle.seg))
              /\ StrLen(w) >= 3
              /\ w \in badwords_en]_vars

\* 'B ad' segmented into 'b' and 'ad' with the entries 'ad', 'bad', 'ping': the token
\* 'ad' is an entry but too short, and nothing is reported
C28_Witness ==
    /\ pc = "lines"
    /\ oracle.set
    /\ ~oracle.en_fail
    /\ oracle.message = <<"B", SP, "a", "d">>
    /\ oracle.seg = [ok |-> TRUE, words |-> << <<"b">>, <<"a", "d">> >>]
    /\ badwords_en = {<<"a", "d">>, <<"b", "a", "d">>, <<"ping">>}
    /\ found_words = <<>>

\* the message lowercased, without the characters outside the allowed set (ASCII
\* letters, Thai letters, whitespace) and without spaces
CleanedNoSpace(m) ==
    SelectSeq(Lower(m), LAMBDA c :
        (IsAsciiLetter(c) \/ c \in ThaiLetters \/ c \in Whitespace) /\ c # SP)

\* w occurs in s as a contiguous run of characters
OccursIn(w, s) == \E i \in 0..(Len(s) - Len(w)) : SubSeq(s, i + 1, i + Len(w)) = w

\* C29: the substring path, when it does not fail, reports exactly the entries of the
\* Thai lexicon that occur as a contiguous substring of the cleaned message without
\* spaces; for an empty message and for one of punctuation only it reports nothing.
C29_ThaiSubstringExactly ==
    [][(pc = "cls_th" /\ pc' # "cls_th" /\ ~oracle.th_fail) =>
          /\ Range(thai_words') = {w \in badwords_th : OccursIn(w, CleanedNoSpace(message))}
          /\ message \in {<<>>, <<"!">>} => thai_words' = <<>>]_vars

\* 'B ad' is found to contain the entry 'bad'
C29_Witness ==
    /\ pc = "cls_en"
    /\ oracle.set
    /\ ~oracle.th_fail
    /\ oracle.message = <<"B", SP, "a", "d">>
    /\ thai_words = << <<"b", "a", "d">> >>

-----------------------------------------------------------------------------
(* What gets recorded *)

\* the step flags a message: it counts it as bad, changes the history by an append,
\* or emits the flagged or the statistics event
FlagsMessage ==
    \/ bad_word_count' > bad_word_count
    \/ chat_messages' # chat_messages /\ chat_messages' # <<>>
    \/ \E i \in 1..Len(emitted') : emitted'[i].sig \in {"bad_word_detected", "chat_stats"}

\* C30: every entry of the history has a non-empty list of matched terms and the
\* worker's channel; a message classified as empty goes back to the line loop, and
\* the worker counts a bad message, appends to the history or emits the flagged or
\* statistics event only for a message with a non-empty classification.
C30_OnlyFlaggedRecorded ==
    /\ [](\A i \in 1..Len(chat_messages) :
             chat_messages[i].bad_words # <<>> /\ chat_messages[i].channel = channel_name)
    /\ [][/\ (pc = "cls_en" /\ pc' # "cls_en" /\ found_words' = <<>>) => pc' = "lines"
          /\ (cpc' = cpc /\ nsent' = nsent /\ FlagsMessage) => found_words # <<>>]_vars

\* a message with an empty classification has been counted and left no other trace
C30_Witness ==
    /\ pc = "lines"
    /\ found_words = <<>>
    /\ total_messages = maxlen
    /\ bad_word_count = maxlen - 1
    /\ Len(chat_messages) = maxlen - 1
    /\ emitted = <<>>
    /\ clock = maxlen - 1

-----------------------------------------------------------------------------
(* Calls of recv that bring nothing *)

C36_EmptyReceiveIsNoData ==
    [][(pc = "recv" /\ received' = "empty") =>
          /\ emitted' = <<>>
          /\ sent' = <<>>
          /\ pc' = "loop"
          /\ UNCHANGED <<wfields, wlocals>>]_vars

\* zero bytes were received on a connected socket with a partial line in the buffer
C36_Witness ==
    /\ received = "empty"
    /\ pc = "loop"
    /\ socket = "connected"
    /\ running
    /\ buffer # <<>>

-----------------------------------------------------------------------------
(* The counters and the history under clear_memory_messages *)

\* C32: in every reachable state the history is no longer than bad_word_count and
\* bad_word_count is no larger than total_messages, however the steps of
\* process_chat_message and of clear_memory_messages interleave.
\* Stated for the states in which neither operation is under way (the worker is
\* between two receives, the controller is idle and the mutex is free), where a
\* broken order stays until the next reset.
C32_CountersOrdered ==
    (pc \in {"loop", "recv"} /\ cpc = "idle" /\ chat_mutex = "free") =>
        /\ Len(chat_messages) <= bad_word_count
        /\ bad_word_count <= total_messages

-----------------------------------------------------------------------------
(* A stop that comes before the worker listens *)

\* the positions of the worker after start_listening has returned
StartReturned == {"done", "w_stop", "w_stop_check", "w_stop_close", "w_stop_none", "finished"}

\* C33: once stop_listening and start_listening have both returned, running is false
\* and the worker holds no open socket, and after stop_listening has returned the
\* worker never sets running to true (it does not begin to listen), wherever the
\* stop fell in start_listening.
C33_EarlyStopNotLost ==
    /\ []((cpc \in StopReturned /\ pc \in StartReturned) =>
              (~running /\ socket \in {"None", "closed"}))
    /\ [][(cpc \in StopReturned /\ running') => running]_vars

-----------------------------------------------------------------------------
(* The sockets of a worker *)

\* the states of a socket object that holds no descriptor
NotOpen == {"None", "closed"}

\* C34: when connect_to_twitch creates a socket the one held before has been closed,
\* and when connect_to_twitch returns False the socket of the failed attempt has
\* been closed.
C34_AtMostOneOpenSocket ==
    [][/\ (pc = "connect" /\ pc' # "connect") => socket \in NotOpen
       /\ (pc \in {"connect", "conn_cleanup", "conn_close", "conn_none"}
             /\ pc' = ConnectFailedPc) => socket' \in NotOpen]_vars

-----------------------------------------------------------------------------
(* The budget of reconnection attempts *)

\* C35: reconnect_attempts stays between 0 and max_reconnect_attempts; it changes
\* only by the increment of one that begins a reconnection attempt and by the
\* reset to 0 of a successful connect, and every attempt and every successful
\* connect changes it so.
C35_AttemptsBudgetPerOutage ==
    /\ [](reconnect_attempts \in 0..max_reconnect_attempts)
    /\ [][/\ reconnect_attempts' # reconnect_attempts =>
               \/ /\ pc = "hce_loop"
                  /\ reconnect_attempts' = reconnect_attempts + 1
               \/ /\ pc = "conn_ok"
                  /\ reconnect_attempts' = 0
          /\ (pc = "hce_loop" /\ pc' = "hce_sleep") =>
               reconnect_attempts' = reconnect_attempts + 1
          /\ (pc = "conn_ok" /\ pc' = ConnectOkPc) => reconnect_attempts' = 0]_vars

\* the fifth attempt of an outage has succeeded and the counter is about to be reset
C35_Witness ==
    /\ pc = "conn_ok"
    /\ caller = "hce_sock"
    /\ reconnect_attempts = max_reconnect_attempts

-----------------------------------------------------------------------------
(* The partial line at a reconnection *)

\* C37: from the socket error to the return of the reconnection into the listen
\* loop no step changes the buffer, frames a line or counts a message, and the
\* data of a receive is appended to the buffer as it stands, so the incomplete
\* line of the old connection is the prefix of the first bytes of the new one.
C37_BufferKeptAcrossReconnect ==
    [][/\ (pc = "recv" /\ pc' = "hce_loop") => UNCHANGED <<buffer, framed, total_messages>>
       /\ (caller = "hce_sock" /\ pc \in {"hce_loop"} \cup AttemptPcs) =>
             UNCHANGED <<buffer, framed, total_messages>>
       /\ (pc = "recv" /\ pc' = "lines") =>
             \E k \in 1..Len(wire) : buffer' = buffer \o Decode(SubSeq(wire, 1, k))]_vars

\* a reconnection succeeds while the first line is incomplete in the buffer and
\* the rest of it is still to come
C37_Witness ==
    /\ pc = "conn_ok"
    /\ caller = "hce_sock"
    /\ total_messages = 0
    /\ framed = <<>>
    /\ buffer # <<>>
    /\ wire # <<>>

-----------------------------------------------------------------------------
(* Sessions: the connect button of the window and a second connect_twitch *)

\* the connection_status events among evs
StatusIndices(evs) == {i \in 1..Len(evs) : evs[i].sig = "connection_status"}

\* the last of them
LastStatus(evs) == evs[CHOOSE i \in StatusIndices(evs) : \A j \in StatusIndices(evs) : j <= i]

\* on_twitch_connection_status: the slot runs in the window's thread when that
\* thread is in its event loop, and enables the connect button on a status of
\* False and disables it on a status of True
OnTwitchConnectionStatus ==
    /\ cpc \in {"idle", "disconnected"}
    /\ StatusIndices(emitted) # {}
    /\ connect_btn' = ~LastStatus(emitted).ok
    /\ UNCHANGED <<emitted, sent>>
    /\ UNCHANGED <<wfields, pc, wlocals, cpc, loaded, snapshot, envvars, ghosts>>

\* connect_twitch, the slot of the connect button's clicked signal: with a valid
\* channel name a new TwitchChatThread replaces self.twitch_thread and is started
ConnectTwitch(valid) ==
    /\ cpc \in {"idle", "disconnected"}
    /\ connect_btn
    /\ IF valid
       THEN cpc' = "second" /\ connect_btn' = FALSE
       ELSE UNCHANGED <<cpc, connect_btn>>
    /\ UNCHANGED <<emitted, sent>>
    /\ UNCHANGED <<wfields, pc, wlocals, loaded, snapshot, envvars, ghosts>>

\* a session, its disconnect_twitch, and the start of the next session
NextSession ==
    \/ NextStop
    \/ OnTwitchConnectionStatus
    \/ \E valid \in BOOLEAN : ConnectTwitch(valid)

SpecSession == Init /\ [][NextSession]_vars

\* C38: connect_twitch starts a new session only when the thread of the earlier
\* session's worker is no longer running. Stated for a worker that is inside
\* listen_to_chat, its reconnection procedure included (a thread that has not yet
\* listened, or that idles in its event loop after start_listening has returned,
\* is not counted).
C38_OneSessionAtATime ==
    [][(cpc # "second" /\ cpc' = "second") => ~InListenToChat]_vars

====
